---- MODULE Spec2Model ----
(***************************************************************************)
(* A model of toster's test runner (src/src/testing_utils.rs): the shared  *)
(* scratch-path pool TEMPFILE_POOL, run_test with its two execution        *)
(* runners and the checker protocol, and the files the scratch paths name. *)
(*                                                                         *)
(* Conventions.  An Option is a set: {} is None and {x} is Some(x).        *)
(* time_seconds is kept in thousandths of a second, so that the report's   *)
(* millisecond field divided by 1000.0 and a timeout given in whole        *)
(* seconds are both exact.  Only the unix build is modelled (the signal    *)
(* branches are compiled under cfg(unix), the sandbox under linux/x86_64). *)
(***************************************************************************)
EXTENDS Integers, Sequences, FiniteSets, TLC

\* ------------------------------------------------------------- bounds
\* num_cpus::get() of the machine.
NumCpus == 1
\* Worker threads calling run_test concurrently.
MaxWorkers == 2
\* run_test calls started over a behaviour of one worker.
MaxCalls == 3
\* run_test calls started over a behaviour of several workers.
MaxSharedCalls == 2
\* Processes that outlive the child the harness waited for or killed.
MaxOrphans == 1
\* The longest of the short texts given to the comparison and the diff.
MaxTextLen == 3
\* How many lines more than MaxDiffRows the longest text has.
MaxExtraRows == 1
\* compile_cpp invocations in a behaviour
MaxCompiles == 2

\* ---------------------------------------------------- program constants
\* ArrayQueue::new(num_cpus::get() * 10), and the same factor in fill.
PathsPerCpu == 10
\* status.signal() == 2: the interrupt signal.
SIGINT == 2
\* split.len() < 6
MinReportFields == 6
\* parse::<f64>() / 1000.0, and seconds kept in thousandths.
MillisPerSecond == 1000

Capacity == NumCpus * PathsPerCpu
Paths == 1..Capacity
Workers == 1..MaxWorkers

\* --------------------------------------------------------------- options
None == {}
Some(x) == {x}
Unwrap(o) == CHOOSE x \in o : TRUE

\* ------------------------------------------------- ExecutionError values
\* Result<(), ExecutionError>: ok, or a variant with its message.  A message
\* is a format string's fixed text and its one argument, a text.
OkResult == [ok |-> TRUE, kind |-> "", text |-> "", arg |-> <<>>]
Err(kind, text, arg) == [ok |-> FALSE, kind |-> kind, text |-> text, arg |-> arg]
TimedOut == Err("TimedOut", "", <<>>)
InvalidOutput == Err("InvalidOutput", "", <<>>)
MemoryLimitExceeded == Err("MemoryLimitExceeded", "", <<>>)
RuntimeError(text, arg) == Err("RuntimeError", text, arg)
Sio2jailError(text, arg) == Err("Sio2jailError", text, arg)
IncorrectCheckerFormat(text) == Err("IncorrectCheckerFormat", text, <<>>)

ExecutionResult(t, m) == [time_seconds |-> t, memory_kilobytes |-> m]
\* *timeout as f64, in thousandths.
SecondsOf(timeout) == timeout * MillisPerSecond

\* --------------------------------------------------------- exit statuses
\* wait_timeout: None (still running) or Some(ExitStatus); an ExitStatus has
\* an exit code or, when code() is None, the signal that ended the process.
StillRunning == [exited |-> FALSE, code |-> None, signal |-> None]
Exited(c) == [exited |-> TRUE, code |-> Some(c), signal |-> None]
Signaled(s) == [exited |-> TRUE, code |-> None, signal |-> Some(s)]

\* ------------------------------------------------------- what a call does
\* The three ways control leaves a runner: it returns its pair, the thread
\* sleeps for u64::MAX seconds, or an expect/unwrap panics.
Returns(res, err) ==
    [how |-> "return", result |-> res, error |-> err, panic |-> ""]
Suspends ==
    [how |-> "suspend", result |-> ExecutionResult(0, None), error |-> OkResult, panic |-> ""]
Panics(msg) ==
    [how |-> "panic", result |-> ExecutionResult(0, None), error |-> OkResult, panic |-> msg]

\* ------------------------------------------------------------------ text
\* A text (a String read from a file) is a sequence of one-character
\* strings.
IsWhitespace(ch) == ch \in {" ", "\n", "\t"}
Digits == <<"0", "1", "2", "3", "4", "5", "6", "7", "8", "9">>
IsDigit(ch) == \E d \in 1..Len(Digits) : Digits[d] = ch
DigitValue(ch) == (CHOOSE d \in 1..Len(Digits) : Digits[d] = ch) - 1

\* format!("{}", n) for a non-negative integer.
RECURSIVE IntToText(_)
IntToText(n) ==
    IF n < Len(Digits) THEN <<Digits[n + 1]>>
    ELSE IntToText(n \div Len(Digits)) \o <<Digits[(n % Len(Digits)) + 1]>>

\* status.to_string() of a status that carries a signal.
StatusText(status) ==
    <<"s", "i", "g", "n", "a", "l", ":", " ">> \o IntToText(Unwrap(status.signal))

\* word.parse::<f64>() and word.parse::<i64>() on the words the model
\* feeds them: a non-empty run of decimal digits parses to its value, any
\* other word is a parse error.
RECURSIVE DecimalValue(_)
DecimalValue(word) ==
    IF word = <<>> THEN 0
    ELSE DecimalValue(SubSeq(word, 1, Len(word) - 1)) * Len(Digits)
         + DigitValue(word[Len(word)])
ParseNumber(word) ==
    IF word # <<>> /\ \A i \in 1..Len(word) : IsDigit(word[i])
    THEN Some(DecimalValue(word)) ELSE None

\* str::split_whitespace: the maximal runs of non-whitespace characters.
RECURSIVE SplitFrom(_, _, _)
SplitFrom(text, i, word) ==
    IF i > Len(text) THEN (IF word = <<>> THEN <<>> ELSE <<word>>)
    ELSE IF IsWhitespace(text[i])
         THEN (IF word = <<>> THEN <<>> ELSE <<word>>) \o SplitFrom(text, i + 1, <<>>)
         ELSE SplitFrom(text, i + 1, Append(word, text[i]))
split_whitespace(text) == SplitFrom(text, 1, <<>>)

\* str::lines: the text cut at each newline, no line for a trailing newline.
RECURSIVE LinesFrom(_, _, _)
LinesFrom(text, i, line) ==
    IF i > Len(text) THEN (IF line = <<>> THEN <<>> ELSE <<line>>)
    ELSE IF text[i] = "\n"
         THEN <<line>> \o LinesFrom(text, i + 1, <<>>)
         ELSE LinesFrom(text, i + 1, Append(line, text[i]))
lines(text) == LinesFrom(text, 1, <<>>)
\* lines().nth(1)
SecondLine(text) == IF Len(lines(text)) >= 2 THEN Some(lines(text)[2]) ELSE None

\* The std::bad_alloc abort message generate_output_sio2jail recognises.
BadAllocMessage ==
    <<"t", "e", "r", "m", "i", "n", "a", "t", "e", " ", "c", "a", "l", "l", 
      "e", "d", " ", "a", "f", "t", "e", "r", " ", "t", "h", "r", "o", "w", 
      "i", "n", "g", " ", "a", "n", " ", "i", "n", "s", "t", "a", "n", "c", 
      "e", " ", "o", "f", " ", "'", "s", "t", "d", ":", ":", "b", "a", "d", 
      "_", "a", "l", "l", "o", "c", "'", "\n", " ", " ", "w", "h", "a", "t", 
      "(", ")", ":", " ", " ", "s", "t", "d", ":", ":", "b", "a", "d", "_", 
      "a", "l", "l", "o", "c", "\n">>

\* *memory_limit as i64: value-preserving for every limit below 2^63, which
\* is every limit the model draws.
AsI64(memory_limit) == memory_limit

\* A variant of generate_output_default: the timeout branch reports the
\* measured time instead of the timeout.
generate_output_default_measured(wait, timeout, elapsed) ==
    IF wait.exited
    THEN IF wait.code = None
         THEN IF Unwrap(wait.signal) = SIGINT
              THEN Suspends
              ELSE Returns(ExecutionResult(elapsed, None),
                           RuntimeError("- the process was terminated with the following error:\n",
                                        StatusText(wait)))
         ELSE IF Unwrap(wait.code) # 0
              THEN Returns(ExecutionResult(elapsed, None),
                           RuntimeError("- the program returned a non-zero return code: ",
                                        IntToText(Unwrap(wait.code))))
              ELSE Returns(ExecutionResult(elapsed, None), OkResult)
    ELSE Returns(ExecutionResult(elapsed, None), TimedOut)

\* ------------------------------------------------- Direct Execution Runner
\* generate_output_default from the wait on.  `wait` is what wait_timeout
\* returned, `elapsed` what time_before_run.elapsed() measured.
generate_output_default(wait, timeout, elapsed) ==
    IF wait.exited
    THEN IF wait.code = None
         THEN IF Unwrap(wait.signal) = SIGINT
              THEN Suspends
              ELSE Returns(ExecutionResult(elapsed, None),
                           RuntimeError("- the process was terminated with the following error:\n",
                                        StatusText(wait)))
         ELSE IF Unwrap(wait.code) # 0
              THEN Returns(ExecutionResult(elapsed, None),
                           RuntimeError("- the program returned a non-zero return code: ",
                                        IntToText(Unwrap(wait.code))))
              ELSE Returns(ExecutionResult(elapsed, None), OkResult)
    ELSE Returns(ExecutionResult(SecondsOf(timeout), None), TimedOut)

\* A variant of Sio2jailStatusError: RV is not among the recognised words.
Sio2jailStatusError_NoRV(sio2jail_status, error_message) ==
    CASE sio2jail_status = <<"O", "K">> -> OkResult
      [] sio2jail_status = <<"R", "E">> ->
            IF error_message = None THEN RuntimeError("", <<>>)
            ELSE RuntimeError("- ", Unwrap(error_message))
      [] sio2jail_status = <<"T", "L", "E">> -> TimedOut
      [] sio2jail_status = <<"M", "L", "E">> -> MemoryLimitExceeded
      [] sio2jail_status = <<"O", "L", "E">> ->
            RuntimeError("- output limit exceeded", <<>>)
      [] OTHER -> Sio2jailError("Sio2jail returned an invalid status in the output: ",
                                sio2jail_status)

\* ---------------------------------------------- Sandboxed Execution Runner
\* The match on the report's status word.
Sio2jailStatusError(sio2jail_status, error_message) ==
    CASE sio2jail_status = <<"O", "K">> -> OkResult
      [] sio2jail_status \in {<<"R", "E">>, <<"R", "V">>} ->
            IF error_message = None THEN RuntimeError("", <<>>)
            ELSE RuntimeError("- ", Unwrap(error_message))
      [] sio2jail_status = <<"T", "L", "E">> -> TimedOut
      [] sio2jail_status = <<"M", "L", "E">> -> MemoryLimitExceeded
      [] sio2jail_status = <<"O", "L", "E">> ->
            RuntimeError("- output limit exceeded", <<>>)
      [] OTHER -> Sio2jailError("Sio2jail returned an invalid status in the output: ",
                                sio2jail_status)

\* A variant of Sio2jailReport: a failure classification returns no usage.
Sio2jailReport_NoUsageOnFailure(wait, sio2jail_output) ==
    LET split == split_whitespace(sio2jail_output) IN
    IF Len(split) < MinReportFields
    THEN Returns(ExecutionResult(0, None),
                 Sio2jailError("The sio2jail output is too short: ", sio2jail_output))
    ELSE IF ParseNumber(split[3]) = None
    THEN Panics("Sio2jail returned an invalid runtime in the output")
    ELSE IF ParseNumber(split[5]) = None
    THEN Panics("Sio2jail returned invalid memory usage in the output")
    ELSE LET sio2jail_status == split[1]
             time_seconds == Unwrap(ParseNumber(split[3]))
             memory_kilobytes == Unwrap(ParseNumber(split[5]))
             error_message == SecondLine(sio2jail_output)
             error == Sio2jailStatusError(sio2jail_status, error_message)
         IN IF wait.code = None
            THEN IF Unwrap(wait.signal) = SIGINT
                 THEN Suspends
                 ELSE Returns(ExecutionResult(0, None),
                              RuntimeError("- the process was terminated with the following error:\n",
                                           StatusText(wait)))
            ELSE IF Unwrap(wait.code) # 0
            THEN Returns(ExecutionResult(0, None),
                         Sio2jailError("Sio2jail returned an invalid status code: ",
                                       IntToText(Unwrap(wait.code))))
            ELSE Returns(IF error.ok
                         THEN ExecutionResult(time_seconds, Some(memory_kilobytes))
                         ELSE ExecutionResult(0, None),
                         error)

\* The part of generate_output_sio2jail after the report has been read.
Sio2jailReport(wait, sio2jail_output) ==
    LET split == split_whitespace(sio2jail_output) IN
    IF Len(split) < MinReportFields
    THEN Returns(ExecutionResult(0, None),
                 Sio2jailError("The sio2jail output is too short: ", sio2jail_output))
    ELSE IF ParseNumber(split[3]) = None
    THEN Panics("Sio2jail returned an invalid runtime in the output")
    ELSE IF ParseNumber(split[5]) = None
    THEN Panics("Sio2jail returned invalid memory usage in the output")
    ELSE LET sio2jail_status == split[1]
             \* split[2].parse::<f64>() / 1000.0 seconds, in thousandths
             time_seconds == Unwrap(ParseNumber(split[3]))
             memory_kilobytes == Unwrap(ParseNumber(split[5]))
             error_message == SecondLine(sio2jail_output)
         IN IF wait.code = None
            THEN IF Unwrap(wait.signal) = SIGINT
                 THEN Suspends
                 ELSE Returns(ExecutionResult(time_seconds, Some(memory_kilobytes)),
                              RuntimeError("- the process was terminated with the following error:\n",
                                           StatusText(wait)))
            ELSE IF Unwrap(wait.code) # 0
            THEN Returns(ExecutionResult(time_seconds, Some(memory_kilobytes)),
                         Sio2jailError("Sio2jail returned an invalid status code: ",
                                       IntToText(Unwrap(wait.code))))
            ELSE Returns(ExecutionResult(time_seconds, Some(memory_kilobytes)),
                         Sio2jailStatusError(sio2jail_status, error_message))

\* A variant of generate_output_sio2jail: a non-zero exit code of the sandbox
\* tool is reported before its stderr capture is looked at.
generate_output_sio2jail_StatusFirst(wait, timeout, memory_limit, error_read, report_read) ==
    IF ~wait.exited
    THEN Returns(ExecutionResult(SecondsOf(timeout), None), TimedOut)
    ELSE IF wait.code # None /\ wait.code # Some(0)
    THEN Returns(ExecutionResult(0, None),
                 Sio2jailError("Sio2jail returned an invalid status code: ",
                               IntToText(Unwrap(wait.code))))
    ELSE IF error_read = None
    THEN Panics("Couldn't read sio2jail error output")
    ELSE IF Unwrap(error_read) # <<>>
    THEN IF Unwrap(error_read) = BadAllocMessage
         THEN Returns(ExecutionResult(0, Some(AsI64(memory_limit))), MemoryLimitExceeded)
         ELSE Returns(ExecutionResult(0, None), Sio2jailError("", Unwrap(error_read)))
    ELSE IF report_read = None
    THEN Panics("Couldn't read temporary sio2jail file")
    ELSE Sio2jailReport(wait, Unwrap(report_read))

\* generate_output_sio2jail from the wait on.  error_read and report_read
\* are the two fs::read_to_string results: None for an Err, Some(text).
generate_output_sio2jail(wait, timeout, memory_limit, error_read, report_read) ==
    IF ~wait.exited
    THEN Returns(ExecutionResult(SecondsOf(timeout), None), TimedOut)
    ELSE IF error_read = None
    THEN Panics("Couldn't read sio2jail error output")
    ELSE IF Unwrap(error_read) # <<>>
    THEN IF Unwrap(error_read) = BadAllocMessage
         THEN Returns(ExecutionResult(0, Some(AsI64(memory_limit))), MemoryLimitExceeded)
         ELSE Returns(ExecutionResult(0, None), Sio2jailError("", Unwrap(error_read)))
    ELSE IF report_read = None
    THEN Panics("Couldn't read temporary sio2jail file")
    ELSE Sio2jailReport(wait, Unwrap(report_read))

\* --------------------------------------------------------- Diff Renderer
\* str::trim_end and str::trim.
RECURSIVE trim_end(_)
trim_end(text) ==
    IF text # <<>> /\ IsWhitespace(text[Len(text)])
    THEN trim_end(SubSeq(text, 1, Len(text) - 1)) ELSE text
RECURSIVE trim_start(_)
trim_start(text) ==
    IF text # <<>> /\ IsWhitespace(text[1]) THEN trim_start(Tail(text)) ELSE text
trim(text) == trim_start(trim_end(text))

\* One turn of the for loop of split_trim_end, on the character ch.
SplitStep(state, ch) ==
    IF ch = "\n"
    THEN [res |-> Append(state.res, trim_end(state.current_string)),
          current_string |-> <<>>]
    ELSE [res |-> state.res, current_string |-> Append(state.current_string, ch)]
\* The for loop of split_trim_end over the characters lo..hi, in order, from
\* `state`.  The range is halved, and the state after the first half is
\* a value before the second half is begun, so that long texts do not nest
\* deeply.
RECURSIVE SplitLoop(_, _, _, _)
SplitLoop(to_split, lo, hi, state) ==
    IF lo > hi THEN state
    ELSE IF lo = hi THEN SplitStep(state, to_split[lo])
    ELSE LET mid == (lo + hi) \div 2
         IN CHOOSE last \in {SplitLoop(to_split, mid + 1, hi, half) :
                                half \in {SplitLoop(to_split, lo, mid, state)}} : TRUE
\* The lines pushed by the loop and by the if that follows it.
SplitLines(to_split) ==
    LET last == SplitLoop(to_split, 1, Len(to_split),
                          [res |-> <<>>, current_string |-> <<>>])
    IN IF last.current_string # <<>>
       THEN Append(last.res, trim_end(last.current_string))
       ELSE last.res
\* The while loop of split_trim_end.
RECURSIVE DropBlankTail(_)
DropBlankTail(res) ==
    IF res # <<>> /\ trim(res[Len(res)]) = <<>>
    THEN DropBlankTail(SubSeq(res, 1, Len(res) - 1)) ELSE res
\* A variant of split_trim_end: trailing blank lines are kept.
split_trim_end_KeepBlankTail(to_split) == SplitLines(to_split)
split_trim_end(to_split) == DropBlankTail(SplitLines(to_split))

\* row_count >= 99
MaxDiffRows == 99
Max(a, b) == IF a > b THEN a ELSE b
Min(a, b) == IF a < b THEN a ELSE b
MarkerRow == [line |-> <<".", ".", ".">>, expected |-> <<".", ".", ".">>,
              actual |-> <<".", ".", ".">>]
\* A variant of DiffStep: the row carries the 0-based index.
DiffStep_ZeroBased(correct_split, incorrect_split, state, i) ==
    IF state.broke THEN state
    ELSE LET file_segment == IF Len(correct_split) > i THEN correct_split[i + 1] ELSE <<>>
             out_segment == IF Len(incorrect_split) > i THEN incorrect_split[i + 1] ELSE <<>>
             differ == file_segment # out_segment
             rows == IF differ
                     THEN Append(state.rows, [line |-> IntToText(i),
                                              expected |-> file_segment,
                                              actual |-> out_segment])
                     ELSE state.rows
             row_count == IF differ THEN state.row_count + 1 ELSE state.row_count
         IN IF row_count >= MaxDiffRows
            THEN [rows |-> Append(rows, MarkerRow), row_count |-> row_count, broke |-> TRUE]
            ELSE [rows |-> rows, row_count |-> row_count, broke |-> FALSE]
\* A variant of DiffStep: the loop is left one differing row later.
DiffStep_Late(correct_split, incorrect_split, state, i) ==
    IF state.broke THEN state
    ELSE LET file_segment == IF Len(correct_split) > i THEN correct_split[i + 1] ELSE <<>>
             out_segment == IF Len(incorrect_split) > i THEN incorrect_split[i + 1] ELSE <<>>
             differ == file_segment # out_segment
             rows == IF differ
                     THEN Append(state.rows, [line |-> IntToText(i + 1),
                                              expected |-> file_segment,
                                              actual |-> out_segment])
                     ELSE state.rows
             row_count == IF differ THEN state.row_count + 1 ELSE state.row_count
         IN IF row_count > MaxDiffRows
            THEN [rows |-> Append(rows, MarkerRow), row_count |-> row_count, broke |-> TRUE]
            ELSE [rows |-> rows, row_count |-> row_count, broke |-> FALSE]
\* One turn of the for loop of generate_diff, at the 0-based index i; after
\* the break the remaining turns are not taken.
DiffStep(correct_split, incorrect_split, state, i) ==
    IF state.broke THEN state
    ELSE LET file_segment == IF Len(correct_split) > i THEN correct_split[i + 1] ELSE <<>>
             out_segment == IF Len(incorrect_split) > i THEN incorrect_split[i + 1] ELSE <<>>
             differ == file_segment # out_segment
             rows == IF differ
                     THEN Append(state.rows, [line |-> IntToText(i + 1),
                                              expected |-> file_segment,
                                              actual |-> out_segment])
                     ELSE state.rows
             row_count == IF differ THEN state.row_count + 1 ELSE state.row_count
         IN IF row_count >= MaxDiffRows
            THEN [rows |-> Append(rows, MarkerRow), row_count |-> row_count, broke |-> TRUE]
            ELSE [rows |-> rows, row_count |-> row_count, broke |-> FALSE]
\* The for loop of generate_diff over the indices lo..hi, in order.
RECURSIVE DiffLoop(_, _, _, _, _)
DiffLoop(correct_split, incorrect_split, lo, hi, state) ==
    IF lo > hi THEN state
    ELSE IF lo = hi THEN DiffStep(correct_split, incorrect_split, state, lo)
    ELSE LET mid == (lo + hi) \div 2
         IN CHOOSE last \in {DiffLoop(correct_split, incorrect_split, mid + 1, hi, half) :
                                half \in {DiffLoop(correct_split, incorrect_split,
                                                    lo, mid, state)}} : TRUE
\* A variant of DiffRange: the loop ends with the shorter of the two.
DiffRange_Shorter(correct_split, incorrect_split) ==
    Min(Len(correct_split), Len(incorrect_split))
\* The range of the for loop of generate_diff: 0..max(len, len), exclusive.
DiffRange(correct_split, incorrect_split) ==
    Max(Len(correct_split), Len(incorrect_split))
\* generate_diff: the rows of the table, header aside.
generate_diff(correct_answer, incorrect_answer) ==
    LET correct_split == split_trim_end(correct_answer)
        incorrect_split == split_trim_end(incorrect_answer)
    IN DiffLoop(correct_split, incorrect_split,
                0, DiffRange(correct_split, incorrect_split) - 1,
                [rows |-> <<>>, row_count |-> 0, broke |-> FALSE]).rows

\* ------------------------------------------------------------ TestResult
\* error is the ExecutionError of ProgramError and CheckerError, message the
\* text of Incorrect's error, rows the diff table of Incorrect's error.
TestResult(kind, error, message, rows) ==
    [kind |-> kind, error |-> error, message |-> message, rows |-> rows]
Correct == TestResult("Correct", OkResult, <<>>, <<>>)
NoOutputFile == TestResult("NoOutputFile", OkResult, <<>>, <<>>)
ProgramError(error) == TestResult("ProgramError", error, <<>>, <<>>)
CheckerError(error) == TestResult("CheckerError", error, <<>>, <<>>)
Incorrect(message, rows) == TestResult("Incorrect", OkResult, message, rows)

\* -------------------------------------------------------- Checker Protocol
CheckerReturns(result) == [how |-> "return", result |-> result, panic |-> ""]
CheckerSuspends == [how |-> "suspend", result |-> Correct, panic |-> ""]
CheckerPanics(msg) == [how |-> "panic", result |-> Correct, panic |-> msg]

IncorrectOutputText ==
    <<"I", "n", "c", "o", "r", "r", "e", "c", "t", " ", "o", "u", "t", "p", "u", "t">>

\* A String is UTF-8: len() counts bytes and split_at takes a byte index.
\* The characters of the model take one byte, but for these, which take two.
TwoByteChars == {"é"}
Utf8Len(ch) == IF ch \in TwoByteChars THEN 2 ELSE 1
RECURSIVE ByteLen(_)
ByteLen(text) == IF text = <<>> THEN 0 ELSE Utf8Len(Head(text)) + ByteLen(Tail(text))
\* str::split_at(mid).1: the text from byte mid on, or None where split_at
\* panics: mid is past the end or not on a character boundary.
split_at_tail(text, mid) ==
    LET cuts == {k \in 0..Len(text) : ByteLen(SubSeq(text, 1, k)) = mid}
    IN IF cuts = {} THEN None
       ELSE Some(SubSeq(text, (CHOOSE k \in cuts : TRUE) + 1, Len(text)))

\* The verdict read off the checker's output (the message of Incorrect is
\* kept without the colour codes of .red()).
CheckerVerdict(checker_output) ==
    IF ByteLen(checker_output) = 0
    THEN CheckerReturns(CheckerError(
             IncorrectCheckerFormat("the checker retured an empty file")))
    ELSE IF checker_output[1] # "C" /\ checker_output[1] # "I"
    THEN CheckerReturns(CheckerError(IncorrectCheckerFormat(
             "the first character of the checker's output wasn't C or I")))
    ELSE IF checker_output[1] = "C"
    THEN CheckerReturns(Correct)
    ELSE IF ByteLen(checker_output) > 1 /\ split_at_tail(checker_output, 2) = None
    THEN CheckerPanics("byte index 2 is not a char boundary")
    ELSE LET checker_error == IF ByteLen(checker_output) > 1
                              THEN Unwrap(split_at_tail(checker_output, 2))
                              ELSE <<>>
         IN CheckerReturns(Incorrect(
                IncorrectOutputText
                  \o (IF trim(checker_error) = <<>> THEN <<>> ELSE <<":", " ">>)
                  \o trim(checker_error), <<>>))

\* A variant of checker_verify: the checker's output is judged before its
\* exit status is looked at.
checker_verify_OutputFirst(wait, output_read) ==
    IF wait.exited
    THEN IF output_read # None /\ Unwrap(output_read) # <<>>
              /\ Unwrap(output_read)[1] \in {"C", "I"}
         THEN CheckerVerdict(Unwrap(output_read))
         ELSE IF wait.code = None
         THEN IF Unwrap(wait.signal) = SIGINT
              THEN CheckerSuspends
              ELSE CheckerReturns(CheckerError(
                       RuntimeError("- the process was terminated with the following error:\n",
                                    StatusText(wait))))
         ELSE IF Unwrap(wait.code) # 0
         THEN CheckerReturns(CheckerError(
                  RuntimeError("- the checker returned a non-zero return code: ",
                               IntToText(Unwrap(wait.code)))))
         ELSE IF output_read = None
         THEN CheckerPanics("Couldn't read checker output file!")
         ELSE CheckerVerdict(Unwrap(output_read))
    ELSE CheckerReturns(CheckerError(TimedOut))

\* checker_verify from the wait on; output_read is the read of the checker's
\* output file.
checker_verify(wait, output_read) ==
    IF wait.exited
    THEN IF wait.code = None
         THEN IF Unwrap(wait.signal) = SIGINT
              THEN CheckerSuspends
              ELSE CheckerReturns(CheckerError(
                       RuntimeError("- the process was terminated with the following error:\n",
                                    StatusText(wait))))
         ELSE IF Unwrap(wait.code) # 0
         THEN CheckerReturns(CheckerError(
                  RuntimeError("- the checker returned a non-zero return code: ",
                               IntToText(Unwrap(wait.code)))))
         ELSE IF output_read = None
         THEN CheckerPanics("Couldn't read checker output file!")
         ELSE CheckerVerdict(Unwrap(output_read))
    ELSE CheckerReturns(CheckerError(TimedOut))

\* ================================================================= state
VARIABLES
    pool,      \* TEMPFILE_POOL: the queue of scratch paths, head first
    pc,        \* where each worker thread is in run_test
    loc,       \* the locals of each worker's run_test call
    ret,       \* Some(the pair run_test returned), until the caller takes it
    obs,       \* what each call popped, pushed and observed (history only)
    content,   \* per path: whose bytes are in the file: "own" for a writer
               \* started under the path's current checkout, "stale" for one
               \* started under an earlier checkout
    orphans,   \* processes that outlived a wait or a kill, as the sets of
               \* <<path, tag>> descriptors they still hold open for writing
    orphaned,  \* how many such processes there have been
    calls,     \* run_test calls started
    rendering,   \* two texts and what the comparison and the diff make of them
    compilation  \* the compile_cpp invocation: where it is, its inputs, its outcome

vars == <<pool, pc, loc, ret, obs, content, orphans, orphaned, calls,
          rendering, compilation>>

PathFields == {"test_output_file_path", "sio2jail_output_file_path", "error_file_path",
               "checker_input_file_path", "checker_output_file_path"}

NoLocals ==
    [use_sio2jail |-> FALSE, checker |-> FALSE, timeout |-> 0, memory_limit |-> 0,
     test_output_file_path |-> None, sio2jail_output_file_path |-> None,
     error_file_path |-> None, checker_input_file_path |-> None,
     checker_output_file_path |-> None,
     execution_result |-> ExecutionResult(0, None), execution_error |-> OkResult,
     test_output |-> <<>>, result |-> Correct, panic |-> ""]

\* how is "" until the runner has been left, then the way it was left, and
\* checker_how the same for checker_verify; reference is Some(the reference
\* file as it was found) once run_test has looked for it.
NoObs ==
    [popped |-> <<>>, pushed |-> <<>>, sandboxed |-> FALSE, how |-> "",
     timeout |-> 0, memory_limit |-> 0,
     wait |-> StillRunning, error_read |-> None, report_read |-> None,
     result |-> ExecutionResult(0, None), error |-> OkResult,
     output_tried |-> FALSE, output_read |-> None, reference |-> None,
     checker_spawned |-> FALSE, checker_how |-> "", checker_wait |-> StillRunning,
     checker_read |-> None, checker_result |-> Correct]

\* The paths a call holds.
Held(w) == UNION {loc[w][f] : f \in PathFields}
\* A call is in flight from its start until it returns or panics; a
\* suspended call stays in flight for ever.
InFlight(w) == pc[w] \notin {"idle", "returned", "panicked"}

\* fill_tempfile_pool: tempfile-0 .. tempfile-(n-1) pushed in order; path i
\* of the model is tempfile-(i-1).
fill_tempfile_pool == [i \in 1..(NumCpus * PathsPerCpu) |-> i]

\* No comparison under way, and no compilation.
NoRendering ==
    [pc |-> "idle", correct_answer |-> <<>>, incorrect_answer |-> <<>>,
     verdict |-> None, rows |-> <<>>]
NoCompilation ==
    [pc |-> "idle", count |-> 0, compile_timeout |-> 0, executable_file |-> None,
     spawn |-> "", waited |-> FALSE, wait |-> StillRunning, killed |-> FALSE,
     compilation_result |-> None, elapsed |-> 0,
     how |-> "", ok |-> FALSE, message |-> "", compilation_time |-> 0]

\* Before any test is run: the pool has been filled, every worker is idle.
InitTests ==
    /\ pool = fill_tempfile_pool
    /\ pc = [w \in Workers |-> "idle"]
    /\ loc = [w \in Workers |-> NoLocals]
    /\ ret = [w \in Workers |-> None]
    /\ obs = [w \in Workers |-> NoObs]
    /\ content = [p \in Paths |-> {}]
    /\ orphans = {}
    /\ orphaned = 0
    /\ calls = 0

Init ==
    /\ InitTests
    /\ rendering = NoRendering
    /\ compilation = NoCompilation

\* ------------------------------------------------------- the environment
\* What the world outside run_test may do in a behaviour: the statuses a
\* wait may report, what each file read may give, whether the harness's
\* own file and process operations may fail.
Timeouts == {2}
MemoryLimits == {9}
Elapsed == {1}

Report(status, time, memory) ==
    status \o <<" ", "1", " ">> \o time \o <<" ", "0", " ">> \o memory \o <<" ", "0", "\n">>
StatusWords == {<<"O", "K">>, <<"R", "E">>, <<"R", "V">>, <<"T", "L", "E">>,
                <<"M", "L", "E">>, <<"O", "L", "E">>, <<"X", "X">>}
FineReports ==
    {Report(st, <<"5">>, <<"7">>) : st \in StatusWords}
    \cup {Report(st, <<"5">>, <<"7">>) \o <<"m", "s", "g", "\n">> : st \in {<<"R", "E">>, <<"O", "K">>}}
    \cup {<<>>, <<"R", "E", " ", "1", " ", "5", " ", "0", " ", "7", "\n">>,
          Report(<<"O", "K">>, <<"1", "2">>, <<"3", "0">>),
          Report(<<"O", "K">>, <<"x">>, <<"7">>), Report(<<"O", "K">>, <<"5">>, <<"x">>)}

FineEnv ==
    [waits |-> {StillRunning, Exited(0), Exited(1), Signaled(SIGINT), Signaled(9)},
     error_reads |-> {None, Some(<<>>), Some(BadAllocMessage), Some(<<"x">>)},
     report_reads |-> {None} \cup {Some(r) : r \in FineReports},
     output_reads |-> {None, Some(<<"a", "\n">>), Some(<<"a", " ", "\n", "\n">>), Some(<<"b">>),
                      Some(<<"a", "\n", "\n", "b">>)},
     references |-> {[is_file |-> FALSE, read |-> None], [is_file |-> TRUE, read |-> None],
                     [is_file |-> TRUE, read |-> Some(<<"a", "\n">>)],
                     [is_file |-> TRUE, read |-> Some(<<"a">>)],
                     [is_file |-> TRUE, read |-> Some(<<"a", "\n", " ", "\n", "b", " ", "\n">>)]},
     checker_waits |-> {StillRunning, Exited(0), Exited(1), Signaled(SIGINT), Signaled(9)},
     checker_reads |-> {None, Some(<<>>), Some(<<"C">>), Some(<<"C", "x">>),
                        Some(<<"I">>), Some(<<"I", ":", " ", "b", "a", "d">>),
                        Some(<<"I", "b">>), Some(<<"I", "é", "b">>), Some(<<"X">>)},
     faults |-> {TRUE, FALSE},
     survivors |-> {FALSE},
     max_calls |-> MaxCalls]

\* A coarser environment for the behaviours of several workers: one input
\* for each way a call can go on.
CoarseEnv ==
    [waits |-> {StillRunning, Exited(0), Signaled(SIGINT)},
     error_reads |-> {Some(<<>>)},
     report_reads |-> {Some(Report(<<"O", "K">>, <<"5">>, <<"7">>)),
                       Some(Report(<<"O", "K">>, <<"x">>, <<"7">>))},
     output_reads |-> {Some(<<"a", "\n">>)},
     references |-> {[is_file |-> TRUE, read |-> Some(<<"a", "\n">>)]},
     checker_waits |-> {Exited(0)},
     checker_reads |-> {Some(<<"C">>)},
     faults |-> {FALSE},
     survivors |-> {FALSE},
     max_calls |-> MaxSharedCalls]

\* The coarse environment of one worker in which a process may outlive the
\* child that was waited for or killed.
SurvivorEnv ==
    [CoarseEnv EXCEPT !.survivors = {TRUE, FALSE}, !.max_calls = MaxCalls]

\* ------------------------------------------------------------ primitives
\* A failed expect or unwrap: the thread unwinds, run_test's locals are
\* dropped (the PathBufs it holds with them) and the call never returns.
Panic(w, msg) ==
    /\ pc' = [pc EXCEPT ![w] = "panicked"]
    /\ loc' = [loc EXCEPT ![w] = [NoLocals EXCEPT !.panic = msg]]

\* File::create on a path truncates the file the path names; a process that
\* still holds a descriptor on the file keeps it, and from now on it is a
\* writer of an earlier checkout.
Truncated(path) ==
    {{IF d[1] = path THEN <<path, "stale">> ELSE d : d \in o} : o \in orphans}

\* TEMPFILE_POOL.pop().expect(..) then File::create(&path).expect(..) into the
\* local `field`.
Acquire(w, E, field, next) ==
    /\ UNCHANGED <<ret, orphaned, calls>>
    /\ IF pool = <<>>
       THEN /\ Panic(w, "Couldn't acquire tempfile!")
            /\ UNCHANGED <<pool, obs, content, orphans>>
       ELSE LET path == Head(pool) IN
            /\ pool' = Tail(pool)
            /\ obs' = [obs EXCEPT ![w].popped = Append(@, path)]
            /\ \E failed \in E.faults :
                 IF failed
                 THEN /\ Panic(w, "Failed to create temporary file!")
                      /\ UNCHANGED <<content, orphans>>
                 ELSE /\ content' = [content EXCEPT ![path] = {}]
                      /\ orphans' = Truncated(path)
                      /\ loc' = [loc EXCEPT ![w][field] = Some(path)]
                      /\ pc' = [pc EXCEPT ![w] = next]

\* TEMPFILE_POOL.push(path).expect(..) of the local `field`, which is moved
\* into the queue.  ArrayQueue::push fails when the queue is full.
PushBack(w, field) ==
    /\ Len(pool) < Capacity
    /\ pool' = Append(pool, Unwrap(loc[w][field]))
    /\ obs' = [obs EXCEPT ![w].pushed = Append(@, Unwrap(loc[w][field]))]
Release(w, field, next) ==
    /\ UNCHANGED <<content, orphans, orphaned, calls>>
    /\ IF Len(pool) >= Capacity
       THEN /\ Panic(w, "Couldn't push into tempfile pool")
            /\ UNCHANGED <<pool, obs>>
       ELSE /\ PushBack(w, field)
            /\ loc' = [loc EXCEPT ![w][field] = None]
            /\ pc' = [pc EXCEPT ![w] = next]

\* A child the harness spawned has been waited for (or killed after the
\* timeout).  What it wrote is in the files it was given; a process it
\* started, or the sandboxed program under a killed sandbox tool, may live
\* on with the same descriptors.
Descriptors(files) == {<<path, "own">> : path \in files}
ChildDone(E, files) ==
    /\ content' = [path \in Paths |->
                     IF path \in files THEN content[path] \cup {"own"}
                     ELSE content[path]]
    /\ \E survivor \in E.survivors :
         IF survivor /\ orphaned < MaxOrphans
         THEN /\ orphans' = orphans \cup {Descriptors(files)}
              /\ orphaned' = orphaned + 1
         ELSE UNCHANGED <<orphans, orphaned>>

\* run_test returns.
Return(w, result, execution_result) ==
    /\ pc' = [pc EXCEPT ![w] = "returned"]
    /\ ret' = [ret EXCEPT ![w] = Some([result |-> result,
                                       execution_result |-> execution_result])]

\* ---------------------------------------------------------------- run_test
\* The caller dispatches a test to worker w: run_test is entered and opens
\* the input file.
StartCall(w, E) ==
    /\ pc[w] = "idle"
    /\ UNCHANGED <<rendering, compilation>>
    /\ calls < E.max_calls
    /\ calls' = calls + 1
    /\ obs' = [obs EXCEPT ![w] = NoObs]
    /\ UNCHANGED <<pool, ret, content, orphans, orphaned>>
    /\ \E failed \in E.faults :
         IF failed
         THEN Panic(w, "Failed to open input file!")
         ELSE /\ pc' = [pc EXCEPT ![w] = "pop_out"]
              /\ \E use_sio2jail \in BOOLEAN, checker \in BOOLEAN,
                    timeout \in Timeouts, memory_limit \in MemoryLimits :
                   loc' = [loc EXCEPT ![w] =
                             [NoLocals EXCEPT !.use_sio2jail = use_sio2jail,
                                              !.checker = checker,
                                              !.timeout = timeout,
                                              !.memory_limit = memory_limit]]

AcquireOutput(w, E) ==
    /\ pc[w] = "pop_out"
    /\ UNCHANGED <<rendering, compilation>>
    /\ Acquire(w, E, "test_output_file_path",
               IF loc[w].use_sio2jail THEN "pop_rep" ELSE "spawn_default")

AcquireReport(w, E) ==
    /\ pc[w] = "pop_rep"
    /\ UNCHANGED <<rendering, compilation>>
    /\ Acquire(w, E, "sio2jail_output_file_path", "pop_err")

AcquireError(w, E) ==
    /\ pc[w] = "pop_err"
    /\ UNCHANGED <<rendering, compilation>>
    /\ Acquire(w, E, "error_file_path", "spawn_sio2jail")

\* generate_output_sio2jail up to the spawn: the sandbox tool's path, the
\* descriptor mapping and the spawn are each expected to succeed.
SpawnSio2jail(w, E) ==
    /\ pc[w] = "spawn_sio2jail"
    /\ UNCHANGED <<rendering, compilation>>
    /\ UNCHANGED <<pool, ret, obs, content, orphans, orphaned, calls>>
    /\ \E failed \in E.faults :
         IF failed
         THEN \E msg \in {"Sio2jail was not properly initialized!",
                          "Failed to redirect file descriptor 3!",
                          "Failed to run file!"} : Panic(w, msg)
         ELSE /\ pc' = [pc EXCEPT ![w] = "wait_sio2jail"]
              /\ UNCHANGED loc

\* generate_output_sio2jail from the wait to its return.
WaitSio2jail(w, E) ==
    /\ pc[w] = "wait_sio2jail"
    /\ UNCHANGED <<rendering, compilation>>
    /\ UNCHANGED <<pool, ret, calls>>
    /\ ChildDone(E, loc[w].test_output_file_path \cup loc[w].sio2jail_output_file_path
                 \cup loc[w].error_file_path)
    /\ \E wait \in E.waits :
       \E error_read \in (IF wait.exited THEN E.error_reads ELSE {None}) :
       \E report_read \in (IF error_read = Some(<<>>) THEN E.report_reads ELSE {None}) :
         LET out == generate_output_sio2jail(wait, loc[w].timeout, loc[w].memory_limit,
                                             error_read, report_read)
         IN /\ obs' = [obs EXCEPT ![w].sandboxed = TRUE, ![w].how = out.how,
                                  ![w].timeout = loc[w].timeout,
                                  ![w].memory_limit = loc[w].memory_limit,
                                  ![w].wait = wait,
                                  ![w].error_read = error_read,
                                  ![w].report_read = report_read,
                                  ![w].result = out.result,
                                  ![w].error = out.error]
            /\ CASE out.how = "return" ->
                      /\ loc' = [loc EXCEPT ![w].execution_result = out.result,
                                            ![w].execution_error = out.error]
                      /\ pc' = [pc EXCEPT ![w] = "push_rep"]
                 [] out.how = "suspend" ->
                      /\ pc' = [pc EXCEPT ![w] = "suspended"]
                      /\ UNCHANGED loc
                 [] out.how = "panic" -> Panic(w, out.panic)

\* A variant of PushReport: the report path is dropped instead of pushed.
PushReport_Dropped(w) ==
    /\ pc[w] = "push_rep"
    /\ UNCHANGED <<rendering, compilation>>
    /\ loc' = [loc EXCEPT ![w].sio2jail_output_file_path = None]
    /\ pc' = [pc EXCEPT ![w] = "push_err"]
    /\ UNCHANGED <<pool, ret, obs, content, orphans, orphaned, calls>>

\* A variant of PushReport: the two sandbox paths are kept until the end of
\* the call instead of being pushed at once.
PushReport_Deferred(w) ==
    /\ pc[w] = "push_rep"
    /\ UNCHANGED <<rendering, compilation>>
    /\ pc' = [pc EXCEPT ![w] = "release_out"]
    /\ UNCHANGED <<pool, loc, ret, obs, content, orphans, orphaned, calls>>

PushReport(w) ==
    /\ pc[w] = "push_rep"
    /\ UNCHANGED <<rendering, compilation>>
    /\ Release(w, "sio2jail_output_file_path", "push_err")
    /\ UNCHANGED ret

PushError(w) ==
    /\ pc[w] = "push_err"
    /\ UNCHANGED <<rendering, compilation>>
    /\ Release(w, "error_file_path", "release_out")
    /\ UNCHANGED ret

\* generate_output_default up to the spawn.
SpawnDefault(w, E) ==
    /\ pc[w] = "spawn_default"
    /\ UNCHANGED <<rendering, compilation>>
    /\ UNCHANGED <<pool, ret, obs, content, orphans, orphaned, calls>>
    /\ \E failed \in E.faults :
         IF failed
         THEN Panic(w, "Failed to run file!")
         ELSE /\ pc' = [pc EXCEPT ![w] = "wait_default"]
              /\ UNCHANGED loc

\* generate_output_default from the wait to its return.
WaitDefault(w, E) ==
    /\ pc[w] = "wait_default"
    /\ UNCHANGED <<rendering, compilation>>
    /\ UNCHANGED <<pool, ret, calls>>
    /\ ChildDone(E, loc[w].test_output_file_path)
    /\ \E wait \in E.waits, elapsed \in Elapsed :
         LET out == generate_output_default(wait, loc[w].timeout, elapsed)
         IN /\ obs' = [obs EXCEPT ![w].how = out.how, ![w].wait = wait,
                                  ![w].timeout = loc[w].timeout,
                                  ![w].result = out.result,
                                  ![w].error = out.error]
            /\ CASE out.how = "return" ->
                      /\ loc' = [loc EXCEPT ![w].execution_result = out.result,
                                            ![w].execution_error = out.error]
                      /\ pc' = [pc EXCEPT ![w] = "release_out"]
                 [] out.how = "suspend" ->
                      /\ pc' = [pc EXCEPT ![w] = "suspended"]
                      /\ UNCHANGED loc

\* The comparison of run_test: Correct when the two texts split into the
\* same lines, Incorrect with the rendered diff otherwise.
CompareOutputs(correct_output, test_output) ==
    LET is_correct == split_trim_end(test_output) = split_trim_end(correct_output)
    IN IF is_correct THEN Correct
       ELSE Incorrect(<<>>, generate_diff(correct_output, test_output))

\* The no-checker verdict: the reference file is looked up, read and
\* compared.  The output path has just been moved into the pool.
CompareWithReference(w, reference, test_output) ==
    IF ~reference.is_file
    THEN /\ Return(w, NoOutputFile, ExecutionResult(0, None))
         /\ loc' = [loc EXCEPT ![w].test_output_file_path = None,
                               ![w].test_output = test_output]
    ELSE IF reference.read = None
    THEN Panic(w, "Failed to read output file!") /\ UNCHANGED ret
    ELSE LET correct_output == Unwrap(reference.read)
         IN /\ loc' = [loc EXCEPT ![w].test_output_file_path = None,
                                  ![w].test_output = test_output]
            /\ Return(w, CompareOutputs(correct_output, test_output),
                      loc[w].execution_result)

\* A variant of ReleaseOutput that looks at the runner's error only when no
\* checker is configured.
ReleaseOutput_CheckerFirst(w, E) ==
    /\ pc[w] = "release_out"
    /\ UNCHANGED <<rendering, compilation>>
    /\ UNCHANGED <<content, orphans, orphaned, calls>>
    /\ IF Len(pool) >= Capacity
       THEN /\ Panic(w, "Couldn't push into tempfile pool")
            /\ UNCHANGED <<pool, obs, ret>>
       ELSE LET path == Unwrap(loc[w].test_output_file_path)
                pushed == [obs[w] EXCEPT !.pushed = Append(@, path)]
            IN
            /\ pool' = Append(pool, path)
            /\ IF ~loc[w].execution_error.ok /\ ~loc[w].checker
               THEN /\ obs' = [obs EXCEPT ![w] = pushed]
                    /\ Return(w, ProgramError(loc[w].execution_error),
                              loc[w].execution_result)
                    /\ loc' = [loc EXCEPT ![w].test_output_file_path = None]
               ELSE \E test_output \in E.output_reads :
                      LET read == [pushed EXCEPT !.output_tried = TRUE,
                                                 !.output_read = test_output]
                      IN
                      IF test_output = None
                      THEN /\ obs' = [obs EXCEPT ![w] = read]
                           /\ Return(w, ProgramError(InvalidOutput), loc[w].execution_result)
                           /\ loc' = [loc EXCEPT ![w].test_output_file_path = None]
                      ELSE IF loc[w].checker
                      THEN /\ obs' = [obs EXCEPT ![w] = read]
                           /\ loc' = [loc EXCEPT ![w].test_output_file_path = None,
                                                 ![w].test_output = Unwrap(test_output)]
                           /\ pc' = [pc EXCEPT ![w] = "pop_cin"]
                           /\ UNCHANGED ret
                      ELSE \E reference \in E.references :
                             /\ obs' = [obs EXCEPT ![w] =
                                          [read EXCEPT !.reference = Some(reference)]]
                             /\ CompareWithReference(w, reference, Unwrap(test_output))

\* run_test after the runner returned: the output path goes back to the
\* pool, at once when the run failed and after the output has been read
\* otherwise, and without a checker the verdict follows.
ReleaseOutput(w, E) ==
    /\ pc[w] = "release_out"
    /\ UNCHANGED <<rendering, compilation>>
    /\ UNCHANGED <<content, orphans, orphaned, calls>>
    /\ IF Len(pool) >= Capacity
       THEN /\ Panic(w, "Couldn't push into tempfile pool")
            /\ UNCHANGED <<pool, obs, ret>>
       ELSE LET path == Unwrap(loc[w].test_output_file_path)
                pushed == [obs[w] EXCEPT !.pushed = Append(@, path)]
            IN
            /\ pool' = Append(pool, path)
            /\ IF ~loc[w].execution_error.ok
               THEN /\ obs' = [obs EXCEPT ![w] = pushed]
                    /\ Return(w, ProgramError(loc[w].execution_error),
                              loc[w].execution_result)
                    /\ loc' = [loc EXCEPT ![w].test_output_file_path = None]
               ELSE \E test_output \in E.output_reads :
                      LET read == [pushed EXCEPT !.output_tried = TRUE,
                                                 !.output_read = test_output]
                      IN
                      IF test_output = None
                      THEN /\ obs' = [obs EXCEPT ![w] = read]
                           /\ Return(w, ProgramError(InvalidOutput), loc[w].execution_result)
                           /\ loc' = [loc EXCEPT ![w].test_output_file_path = None]
                      ELSE IF loc[w].checker
                      THEN /\ obs' = [obs EXCEPT ![w] = read]
                           /\ loc' = [loc EXCEPT ![w].test_output_file_path = None,
                                                 ![w].test_output = Unwrap(test_output)]
                           /\ pc' = [pc EXCEPT ![w] = "pop_cin"]
                           /\ UNCHANGED ret
                      ELSE \E reference \in E.references :
                             /\ obs' = [obs EXCEPT ![w] =
                                          [read EXCEPT !.reference = Some(reference)]]
                             /\ CompareWithReference(w, reference, Unwrap(test_output))

AcquireCheckerInput(w, E) ==
    /\ pc[w] = "pop_cin"
    /\ UNCHANGED <<rendering, compilation>>
    /\ Acquire(w, E, "checker_input_file_path", "pop_cout")

AcquireCheckerOutput(w, E) ==
    /\ pc[w] = "pop_cout"
    /\ UNCHANGED <<rendering, compilation>>
    /\ Acquire(w, E, "checker_output_file_path", "spawn_checker")

\* The input file is read for the checker, then checker_verify up to the
\* spawn: the checker's input is written, reopened, and the checker started.
SpawnChecker(w, E) ==
    /\ pc[w] = "spawn_checker"
    /\ UNCHANGED <<rendering, compilation>>
    /\ UNCHANGED <<pool, ret, orphans, orphaned, calls>>
    /\ \E failed \in E.faults :
         IF failed
         THEN /\ \E msg \in {"Couldn't read input file!",
                             "Failed to write to checker input file!",
                             "Couldn't open checker input file!",
                             "Failed to run checker!"} : Panic(w, msg)
              /\ UNCHANGED <<content, obs>>
         ELSE /\ content' = [content EXCEPT ![Unwrap(loc[w].checker_input_file_path)] =
                               @ \cup {"own"}]
              /\ obs' = [obs EXCEPT ![w].checker_spawned = TRUE]
              /\ pc' = [pc EXCEPT ![w] = "wait_checker"]
              /\ UNCHANGED loc

\* checker_verify from the wait to its return.  output_read is what reading
\* the checker's output file gives, whether or not the code comes to read it.
WaitChecker(w, E) ==
    /\ pc[w] = "wait_checker"
    /\ UNCHANGED <<rendering, compilation>>
    /\ UNCHANGED <<pool, ret, calls>>
    /\ ChildDone(E, loc[w].checker_output_file_path)
    /\ \E wait \in E.checker_waits, output_read \in E.checker_reads :
         LET out == checker_verify(wait, output_read)
         IN /\ obs' = [obs EXCEPT ![w].checker_how = out.how,
                                  ![w].checker_wait = wait,
                                  ![w].checker_read = output_read,
                                  ![w].checker_result = out.result]
            /\ CASE out.how = "return" ->
                      /\ loc' = [loc EXCEPT ![w].result = out.result]
                      /\ pc' = [pc EXCEPT ![w] = "push_cin"]
                 [] out.how = "suspend" ->
                      /\ pc' = [pc EXCEPT ![w] = "suspended"]
                      /\ UNCHANGED loc
                 [] out.how = "panic" -> Panic(w, out.panic)

PushCheckerInput(w) ==
    /\ pc[w] = "push_cin"
    /\ UNCHANGED <<rendering, compilation>>
    /\ Release(w, "checker_input_file_path", "push_cout")
    /\ UNCHANGED ret

\* The last push, and run_test returns checker_verify's verdict.
PushCheckerOutput(w) ==
    /\ pc[w] = "push_cout"
    /\ UNCHANGED <<rendering, compilation>>
    /\ Release(w, "checker_output_file_path", "returned")
    /\ IF Len(pool) >= Capacity
       THEN UNCHANGED ret
       ELSE ret' = [ret EXCEPT ![w] = Some([result |-> loc[w].result,
                                            execution_result |-> loc[w].execution_result])]

\* The caller takes the returned pair; the worker is free for the next test.
Finish(w) ==
    /\ pc[w] = "returned"
    /\ UNCHANGED <<rendering, compilation>>
    /\ pc' = [pc EXCEPT ![w] = "idle"]
    /\ loc' = [loc EXCEPT ![w] = NoLocals]
    /\ ret' = [ret EXCEPT ![w] = None]
    /\ obs' = [obs EXCEPT ![w] = NoObs]
    /\ UNCHANGED <<pool, content, orphans, orphaned, calls>>

\* ------------------------------------------------------ orphan processes
\* A surviving process writes to one of the files it holds open: the bytes
\* land in the file the path names now, truncated since or not.
OrphanWrite ==
    /\ \E o \in orphans : \E d \in o :
         content' = [content EXCEPT ![d[1]] = @ \cup {d[2]}]
    /\ UNCHANGED <<pool, pc, loc, ret, obs, orphans, orphaned, calls>>
    /\ UNCHANGED <<rendering, compilation>>

OrphanExit ==
    /\ \E o \in orphans : orphans' = orphans \ {o}
    /\ UNCHANGED <<pool, pc, loc, ret, obs, content, orphaned, calls>>
    /\ UNCHANGED <<rendering, compilation>>

\* ------------------------------------------------------- specifications
\* Several workers, the coarse environment.
Next ==
    \E w \in Workers :
        \/ StartCall(w, CoarseEnv)
        \/ AcquireOutput(w, CoarseEnv)
        \/ AcquireReport(w, CoarseEnv)
        \/ AcquireError(w, CoarseEnv)
        \/ SpawnSio2jail(w, CoarseEnv)
        \/ WaitSio2jail(w, CoarseEnv)
        \/ PushReport(w)
        \/ PushError(w)
        \/ SpawnDefault(w, CoarseEnv)
        \/ WaitDefault(w, CoarseEnv)
        \/ ReleaseOutput(w, CoarseEnv)
        \/ AcquireCheckerInput(w, CoarseEnv)
        \/ AcquireCheckerOutput(w, CoarseEnv)
        \/ SpawnChecker(w, CoarseEnv)
        \/ WaitChecker(w, CoarseEnv)
        \/ PushCheckerInput(w)
        \/ PushCheckerOutput(w)
        \/ Finish(w)

Spec == Init /\ [][Next]_vars

\* One worker, the fine environment: every input of a single call.
FirstWorker == CHOOSE w \in Workers : \A v \in Workers : w <= v
NextCall ==
    \E w \in {FirstWorker} :
        \/ StartCall(w, FineEnv)
        \/ AcquireOutput(w, FineEnv)
        \/ AcquireReport(w, FineEnv)
        \/ AcquireError(w, FineEnv)
        \/ SpawnSio2jail(w, FineEnv)
        \/ WaitSio2jail(w, FineEnv)
        \/ PushReport(w)
        \/ PushError(w)
        \/ SpawnDefault(w, FineEnv)
        \/ WaitDefault(w, FineEnv)
        \/ ReleaseOutput(w, FineEnv)
        \/ AcquireCheckerInput(w, FineEnv)
        \/ AcquireCheckerOutput(w, FineEnv)
        \/ SpawnChecker(w, FineEnv)
        \/ WaitChecker(w, FineEnv)
        \/ PushCheckerInput(w)
        \/ PushCheckerOutput(w)
        \/ Finish(w)

SpecCall == Init /\ [][NextCall]_vars

\* One worker and the processes its children leave behind.
NextFiles ==
    \/ \E w \in {FirstWorker} :
        \/ StartCall(w, SurvivorEnv)
        \/ AcquireOutput(w, SurvivorEnv)
        \/ AcquireReport(w, SurvivorEnv)
        \/ AcquireError(w, SurvivorEnv)
        \/ SpawnSio2jail(w, SurvivorEnv)
        \/ WaitSio2jail(w, SurvivorEnv)
        \/ PushReport(w)
        \/ PushError(w)
        \/ SpawnDefault(w, SurvivorEnv)
        \/ WaitDefault(w, SurvivorEnv)
        \/ ReleaseOutput(w, SurvivorEnv)
        \/ AcquireCheckerInput(w, SurvivorEnv)
        \/ AcquireCheckerOutput(w, SurvivorEnv)
        \/ SpawnChecker(w, SurvivorEnv)
        \/ WaitChecker(w, SurvivorEnv)
        \/ PushCheckerInput(w)
        \/ PushCheckerOutput(w)
        \/ Finish(w)
    \/ OrphanWrite
    \/ OrphanExit

SpecFiles == Init /\ [][NextFiles]_vars

\* ------------------------------------------- the comparison and the diff
\* The texts compared: every text of at most MaxTextLen characters over a
\* letter, another, a blank and a newline, and texts of about MaxDiffRows
\* lines.
Alphabet == {"a", "b", " ", "\n"}
ShortTexts == UNION {[1..n -> Alphabet] : n \in 0..MaxTextLen}
RepeatLine(ch, n) == [i \in 1..(2 * n) |-> IF i % 2 = 1 THEN ch ELSE "\n"]
LongLengths == (MaxDiffRows - 1)..(MaxDiffRows + MaxExtraRows)
LongTexts ==
    {RepeatLine(ch, n) : ch \in {"a", "b"}, n \in LongLengths}
    \cup {<<"a", "\n">> \o RepeatLine("b", n - 1) : n \in LongLengths}
\* The pairs compared: short with short, long with long or with nothing.
TextPairs ==
    (ShortTexts \X ShortTexts) \cup (LongTexts \X LongTexts)
    \cup (LongTexts \X {<<>>}) \cup ({<<>>} \X LongTexts)

InitDiff ==
    /\ InitTests
    /\ compilation = NoCompilation
    /\ \E pair \in TextPairs :
         rendering = [NoRendering EXCEPT !.pc = "drawn",
                                         !.correct_answer = pair[1],
                                         !.incorrect_answer = pair[2]]

\* generate_diff is applied to the two texts.
RenderDiff ==
    /\ rendering.pc = "drawn"
    /\ rendering' = [rendering EXCEPT
                       !.pc = "rendered",
                       !.rows = generate_diff(rendering.correct_answer,
                                              rendering.incorrect_answer)]
    /\ UNCHANGED <<pool, pc, loc, ret, obs, content, orphans, orphaned, calls, compilation>>

\* The comparison of run_test is applied to the two texts, the second as
\* the program's output.
Compare ==
    /\ rendering.pc = "rendered"
    /\ rendering' = [rendering EXCEPT
                       !.pc = "compared",
                       !.verdict = Some(CompareOutputs(rendering.correct_answer,
                                                       rendering.incorrect_answer))]
    /\ UNCHANGED <<pool, pc, loc, ret, obs, content, orphans, orphaned, calls, compilation>>

NextDiff == RenderDiff \/ Compare

SpecDiff == InitDiff /\ [][NextDiff]_vars

\* ------------------------------------------------------------ compile_cpp
\* What compile_cpp gives back: Ok((executable_file, compilation_time)),
\* Err(message), or a panic that unwinds out of it.
CompileOk(executable_file, compilation_time) ==
    [how |-> "return", ok |-> TRUE, message |-> "",
     executable_file |-> Some(executable_file), compilation_time |-> compilation_time]
CompileErr(message) ==
    [how |-> "return", ok |-> FALSE, message |-> message,
     executable_file |-> None, compilation_time |-> 0]
CompilePanics(message) ==
    [how |-> "panic", ok |-> FALSE, message |-> message,
     executable_file |-> None, compilation_time |-> 0]

\* A source path as compile_cpp sees it: its file_stem() and whether that
\* is valid UTF-8.
SourceFiles ==
    {[file_stem |-> Some("a"), utf8 |-> TRUE],
     [file_stem |-> Some("b"), utf8 |-> TRUE],
     [file_stem |-> None, utf8 |-> TRUE],
     [file_stem |-> Some("?"), utf8 |-> FALSE]}
CompileTimeouts == {1, 2}
\* What Command::spawn gives: a child, or the kind of its io::Error.
CompilerSpawns == {"ok", "NotFound", "PermissionDenied"}
\* What wait_timeout gives: Err, Ok(None) or Ok(Some(status)), the status
\* an exit code or a terminating signal.
SIGSEGV == 11
CompilerWaits ==
    {[waited |-> FALSE, wait |-> StillRunning]}
    \cup {[waited |-> TRUE, wait |-> wait] :
            wait \in {StillRunning, Exited(0), Exited(1), Signaled(SIGSEGV)}}
\* What the compiler left in its stderr file; None when it cannot be read
\* as UTF-8 text.
CompilerMessages == {None, Some(""), Some("error: expected a semicolon")}
\* Instant::elapsed() after the wait, in thousandths of a second.
CompileElapsed == {500, 1500}

\* The io::Error of a failed spawn, as text.
IoErrorText(kind) == kind \o " (os error)"

\* Lines 79-80: the executable's path in the temporary directory, or the
\* panic of an expect.
ExecutableFile(source_code_file) ==
    IF source_code_file.file_stem = None \/ ~source_code_file.utf8
    THEN None
    ELSE Some([dir |-> "tempdir", base |-> Unwrap(source_code_file.file_stem),
               extension |-> ".o"])

\* Lines 95-101: what a spawn error returns.
SpawnError(kind) ==
    IF kind = "NotFound"
    THEN CompileErr("The compiler was not found!")
    ELSE CompileErr(IoErrorText(kind))

\* Lines 103-118: what compile_cpp makes of the wait. res is what
\* wait_timeout gave, killed whether child.kill() succeeded,
\* compilation_result what reading the stderr file gives.
CompileOutcome(res, killed, compilation_result, executable_file, elapsed) ==
    IF ~res.waited THEN CompilePanics("called Result::unwrap() on an Err value")
    ELSE IF res.wait.exited
    THEN IF res.wait.code = None
         THEN CompilePanics("The compiler returned an invalid status code")
         ELSE IF Unwrap(res.wait.code) # 0
              THEN IF compilation_result = None
                   THEN CompilePanics("Failed to read compiler output")
                   ELSE CompileErr(Unwrap(compilation_result))
              ELSE CompileOk(executable_file, elapsed)
    ELSE IF ~killed
         THEN CompilePanics("called Result::unwrap() on an Err value")
         ELSE CompileErr("Compilation timed out")

\* compile_cpp ends with the outcome out.
CompileEnds(c, out) ==
    [c EXCEPT !.pc = "done", !.how = out.how, !.ok = out.ok,
              !.message = out.message, !.compilation_time = out.compilation_time,
              !.executable_file = IF out.ok THEN out.executable_file ELSE @]

TestVars == <<pool, pc, loc, ret, obs, content, orphans, orphaned, calls, rendering>>

\* compile_cpp is called and names the executable (lines 73-80).
CompileStart ==
    /\ compilation.pc \in {"idle", "done"}
    /\ compilation.count < MaxCompiles
    /\ \E source_code_file \in SourceFiles, compile_timeout \in CompileTimeouts :
         LET executable_file == ExecutableFile(source_code_file)
             called == [NoCompilation EXCEPT !.count = compilation.count + 1,
                                             !.compile_timeout = compile_timeout]
         IN compilation' =
              IF executable_file = None
              THEN CompileEnds(called, CompilePanics("The provided filename is invalid!"))
              ELSE [called EXCEPT !.pc = "named", !.executable_file = executable_file]
    /\ UNCHANGED TestVars

\* The command is put together and the file for the compiler's stderr is
\* created (lines 82-86). split(" ") always has a first item, so the expect
\* of line 88 cannot fail.
CompileCreate ==
    /\ compilation.pc = "named"
    /\ \E created \in BOOLEAN :
         compilation' =
           IF created
           THEN [compilation EXCEPT !.pc = "created"]
           ELSE CompileEnds(compilation, CompilePanics("Failed to create temporary file!"))
    /\ UNCHANGED TestVars

\* The compiler is spawned (lines 88-101).
CompileSpawn ==
    /\ compilation.pc = "created"
    /\ \E spawn \in CompilerSpawns :
         LET spawned == [compilation EXCEPT !.spawn = spawn]
         IN compilation' =
              IF spawn = "ok"
              THEN [spawned EXCEPT !.pc = "spawned"]
              ELSE CompileEnds(spawned, SpawnError(spawn))
    /\ UNCHANGED TestVars

\* The compiler is waited for, and killed if it is still running (lines
\* 103-118).
CompileWait ==
    /\ compilation.pc = "spawned"
    /\ \E res \in CompilerWaits, killed \in BOOLEAN,
          compilation_result \in CompilerMessages, elapsed \in CompileElapsed :
         \* only what the code gets to is drawn
         /\ killed => (res.waited /\ ~res.wait.exited)
         /\ (compilation_result # None) =>
               (res.waited /\ res.wait.exited /\ res.wait.code \notin {None, Some(0)})
         /\ (elapsed # 500) => (res.waited /\ res.wait = Exited(0))
         /\ compilation' =
              CompileEnds([compilation EXCEPT !.waited = res.waited,
                                              !.wait = res.wait,
                                              !.killed = killed,
                                              !.compilation_result = compilation_result,
                                              !.elapsed = elapsed],
                          CompileOutcome(res, killed, compilation_result,
                                         Unwrap(compilation.executable_file), elapsed))
    /\ UNCHANGED TestVars

NextCompile == CompileStart \/ CompileCreate \/ CompileSpawn \/ CompileWait

SpecCompile == Init /\ [][NextCompile]_vars

\* ================================================================ claims
\* How many times a path occurs in the pool.
Occurrences(path) == Cardinality({i \in 1..Len(pool) : pool[i] = path})
\* A call has ended: it returned, or it never will.
Ended(w) == pc[w] \in {"returned", "suspended", "panicked"}
PathsOf(seq) == {seq[i] : i \in 1..Len(seq)}

\* C1: once every run_test call that was started has returned, the pool
\* holds exactly Capacity paths: each path fill_tempfile_pool inserted, once.
C1_PoolRestored ==
    (\A w \in Workers : pc[w] \in {"idle", "returned"})
        => /\ Len(pool) = Capacity
           /\ \A path \in PathsOf(fill_tempfile_pool) : Occurrences(path) = 1
\* Every worker has run a call to its return, and the pool has been used.
C1_Witness ==
    /\ \A w \in Workers : pc[w] = "returned" /\ Len(obs[w].pushed) >= 3
    /\ pool # fill_tempfile_pool

\* C2: when a call has ended, whatever its outcome, it has pushed back each
\* path it popped, exactly once.
C2_Balanced ==
    \A w \in Workers :
        Ended(w) =>
            /\ Len(obs[w].pushed) = Len(obs[w].popped)
            /\ PathsOf(obs[w].pushed) = PathsOf(obs[w].popped)

\* C3: every path is either in the pool (once) and held by no call, or out
\* of the pool and held by exactly one call in flight.
C3_SingleOwner ==
    \A path \in Paths :
        LET holders == {w \in Workers : InFlight(w) /\ path \in Held(w)}
        IN \/ Occurrences(path) = 1 /\ holders = {}
           \/ Occurrences(path) = 0 /\ Cardinality(holders) = 1

C5_FreshContent ==
    \A w \in Workers : \A path \in Held(w) : "stale" \notin content[path]

\* C6: generate_output_default returns for every wait but one ended by the
\* interrupt signal, with memory_kilobytes None and: no exit within the
\* timeout -> TimedOut with time_seconds the timeout; exit code 0 -> Ok; a
\* non-zero exit code -> RuntimeError carrying the code; another signal ->
\* RuntimeError carrying the termination description.
C6_DefaultClassification ==
    \A w \in Workers :
        (obs[w].how # "" /\ ~obs[w].sandboxed /\ obs[w].wait # Signaled(SIGINT)) =>
            LET wait == obs[w].wait
                res == obs[w].result
                err == obs[w].error
            IN /\ obs[w].how = "return"
               /\ res.memory_kilobytes = None
               /\ ~wait.exited =>
                     err = TimedOut /\ res.time_seconds = SecondsOf(obs[w].timeout)
               /\ wait.code = Some(0) => err = OkResult
               /\ (wait.code # None /\ wait.code # Some(0)) =>
                     /\ err.kind = "RuntimeError"
                     /\ err.arg = IntToText(Unwrap(wait.code))
               /\ wait.signal # None =>
                     /\ err.kind = "RuntimeError"
                     /\ err.arg = StatusText(wait)
\* A direct run timed out and the runner returned TimedOut.
C6_Witness ==
    \E w \in Workers :
        /\ obs[w].how = "return" /\ ~obs[w].sandboxed
        /\ ~obs[w].wait.exited /\ obs[w].error = TimedOut
        /\ pc[w] = "release_out"

\* C7: in both runners, once the spawned process has been found ended by
\* the interrupt signal, the worker does not go on with a result: the call
\* is suspended (or dead), whatever the sandbox's stderr and report hold.
C7_InterruptSuspends ==
    \A w \in Workers :
        (obs[w].how # "" /\ obs[w].wait = Signaled(SIGINT)) =>
            /\ pc[w] \in {"suspended", "panicked"}
            /\ ret[w] = None

\* The sandboxed run ended within the timeout and its stderr capture was
\* read and found empty, so the report has been read.
ReportRead(w) ==
    /\ obs[w].sandboxed /\ obs[w].how # ""
    /\ obs[w].wait.exited
    /\ obs[w].error_read = Some(<<>>)
    /\ obs[w].report_read # None
ReportFields(w) == split_whitespace(Unwrap(obs[w].report_read))
\* The claimed outcome for a report's status word and second line.
C8_Outcome(status, second_line) ==
    CASE status = <<"O", "K">> -> OkResult
      [] status = <<"R", "E">> \/ status = <<"R", "V">> ->
            [ok |-> FALSE, kind |-> "RuntimeError",
             text |-> IF second_line = None THEN "" ELSE "- ",
             arg |-> IF second_line = None THEN <<>> ELSE Unwrap(second_line)]
      [] status = <<"T", "L", "E">> -> [ok |-> FALSE, kind |-> "TimedOut", text |-> "", arg |-> <<>>]
      [] status = <<"M", "L", "E">> ->
            [ok |-> FALSE, kind |-> "MemoryLimitExceeded", text |-> "", arg |-> <<>>]
      [] status = <<"O", "L", "E">> ->
            [ok |-> FALSE, kind |-> "RuntimeError", text |-> "- output limit exceeded",
             arg |-> <<>>]
      [] OTHER -> [ok |-> FALSE, kind |-> "Sio2jailError",
                   text |-> "Sio2jail returned an invalid status in the output: ",
                   arg |-> status]

\* C8 as claimed: with stderr empty and a report of at least 6 fields, what
\* the sandboxed runner returns is decided by field 0 alone.
C8_StatusAlone ==
    \A w \in Workers :
        (ReportRead(w) /\ Len(ReportFields(w)) >= MinReportFields
                       /\ obs[w].how = "return") =>
            obs[w].error = C8_Outcome(ReportFields(w)[1],
                                      SecondLine(Unwrap(obs[w].report_read)))

\* C8 as amended: with stderr empty and a report of at least 6 fields whose
\* fields 2 and 4 are numbers, field 0 decides what the runner returns only
\* when the sandbox tool exited with code 0; a non-zero exit code gives
\* Sio2jailError carrying the code and a signal other than the interrupt
\* signal gives RuntimeError carrying the termination description, whatever
\* field 0 is.
C8_StatusAloneOnCleanExit ==
    \A w \in Workers :
        (/\ ReportRead(w) /\ Len(ReportFields(w)) >= MinReportFields
         /\ ParseNumber(ReportFields(w)[3]) # None
         /\ ParseNumber(ReportFields(w)[5]) # None
         /\ obs[w].wait # Signaled(SIGINT)) =>
            LET wait == obs[w].wait IN
            /\ obs[w].how = "return"
            /\ wait = Exited(0) =>
                  obs[w].error = C8_Outcome(ReportFields(w)[1],
                                            SecondLine(Unwrap(obs[w].report_read)))
            /\ (wait.code # None /\ wait.code # Some(0)) =>
                  /\ obs[w].error.kind = "Sio2jailError"
                  /\ obs[w].error.arg = IntToText(Unwrap(wait.code))
            /\ wait.signal # None =>
                  /\ obs[w].error.kind = "RuntimeError"
                  /\ obs[w].error.arg = StatusText(wait)
\* A report whose status is RE with a second line has been classified.
C8_Witness ==
    \E w \in Workers :
        /\ ReportRead(w) /\ Len(ReportFields(w)) >= MinReportFields
        /\ obs[w].wait = Exited(0)
        /\ ReportFields(w)[1] = <<"R", "E">>
        /\ SecondLine(Unwrap(obs[w].report_read)) # None
        /\ obs[w].error.kind = "RuntimeError"
        /\ pc[w] = "push_rep"

\* C9: after a wait that did not time out, a non-empty stderr capture
\* decides the result whatever the report and the exit status: Sio2jailError
\* carrying the stderr text, or, for the std::bad_alloc message,
\* MemoryLimitExceeded with time_seconds 0 and the memory limit as memory.
C9_StderrFirst ==
    \A w \in Workers :
        (/\ obs[w].sandboxed /\ obs[w].how # "" /\ obs[w].wait.exited
         /\ obs[w].error_read # None /\ obs[w].error_read # Some(<<>>)) =>
            LET error_output == Unwrap(obs[w].error_read) IN
            /\ obs[w].how = "return"
            /\ IF error_output = BadAllocMessage
               THEN /\ obs[w].error.kind = "MemoryLimitExceeded"
                    /\ obs[w].result.time_seconds = 0
                    /\ obs[w].result.memory_kilobytes = Some(obs[w].memory_limit)
               ELSE /\ obs[w].error.kind = "Sio2jailError"
                    /\ obs[w].error.arg = error_output
\* The sandbox tool was ended by the interrupt signal, its stderr held the
\* bad_alloc message, and the runner returned MemoryLimitExceeded.
C9_Witness ==
    \E w \in Workers :
        /\ obs[w].sandboxed /\ obs[w].how = "return"
        /\ obs[w].wait = Signaled(SIGINT)
        /\ obs[w].error_read = Some(BadAllocMessage)
        /\ obs[w].error.kind = "MemoryLimitExceeded"
        /\ pc[w] = "push_rep"

\* The report was parsed: at least 6 fields, fields 2 and 4 numbers.
ReportParsed(w) ==
    /\ ReportRead(w) /\ Len(ReportFields(w)) >= MinReportFields
    /\ ParseNumber(ReportFields(w)[3]) # None
    /\ ParseNumber(ReportFields(w)[5]) # None
\* time_seconds = field 2 / 1000 (kept in thousandths), memory = Some(field 4).
ParsedUsage(w) ==
    ExecutionResult(Unwrap(ParseNumber(ReportFields(w)[3])),
                    Some(Unwrap(ParseNumber(ReportFields(w)[5]))))

\* C10 as claimed: once the report is parsed, the ExecutionResult the runner
\* returns carries the parsed time and memory, and so does the one run_test
\* returns.
C10_ParsedUsageReturned ==
    \A w \in Workers :
        (ReportParsed(w) /\ obs[w].how = "return") =>
            /\ obs[w].result = ParsedUsage(w)
            /\ ret[w] # None => Unwrap(ret[w]).execution_result = ParsedUsage(w)

\* C10 as amended: the same, except that with NoOutputFile run_test returns
\* time_seconds 0 and memory_kilobytes None.
C10_ParsedUsageButNoOutputFile ==
    \A w \in Workers :
        (ReportParsed(w) /\ obs[w].how = "return") =>
            /\ obs[w].result = ParsedUsage(w)
            /\ ret[w] # None =>
                 Unwrap(ret[w]).execution_result =
                     IF Unwrap(ret[w]).result.kind = "NoOutputFile"
                     THEN ExecutionResult(0, None)
                     ELSE ParsedUsage(w)
\* A sandboxed run with a parsed report ended in NoOutputFile.
C10_Witness ==
    \E w \in Workers :
        /\ ReportParsed(w) /\ obs[w].how = "return"
        /\ obs[w].result.time_seconds > 0
        /\ ret[w] # None
        /\ Unwrap(ret[w]).result.kind = "NoOutputFile"

\* The status words generate_output_sio2jail recognises.
RecognisedStatus ==
    {<<"O", "K">>, <<"R", "E">>, <<"R", "V">>, <<"T", "L", "E">>, <<"M", "L", "E">>,
     <<"O", "L", "E">>}
\* The report that was read is malformed: fewer than 6 fields, or a status
\* word that is not recognised.
MalformedReport(w) ==
    /\ ReportRead(w)
    /\ \/ Len(ReportFields(w)) < MinReportFields
       \/ ReportFields(w)[1] \notin RecognisedStatus

\* C11: a test whose sandbox report is malformed is not scored: run_test
\* returns none of Correct, Incorrect, ProgramError or CheckerError for it.
C11_MalformedNotScored ==
    \A w \in Workers :
        (MalformedReport(w) /\ ret[w] # None) =>
            Unwrap(ret[w]).result.kind
                \notin {"Correct", "Incorrect", "ProgramError", "CheckerError"}

\* checker_verify has been left after a checker that exited with code 0
\* within the timeout and whose output file could be read.
CheckerJudged(w) ==
    /\ obs[w].checker_how # ""
    /\ obs[w].checker_wait = Exited(0)
    /\ obs[w].checker_read # None
\* The text from the third character on.
FromThirdCharacter(text) == SubSeq(text, 3, Len(text))

\* C12: for a checker that exited with code 0 within the timeout,
\* checker_verify returns, and returns Correct when the output begins with
\* C, Incorrect carrying the output from the third character on (trimmed)
\* when it begins with I, and CheckerError(IncorrectCheckerFormat) when the
\* output is empty or begins with anything else.
C12_CheckerMapping ==
    \A w \in Workers :
        CheckerJudged(w) =>
            LET checker_output == Unwrap(obs[w].checker_read)
                result == obs[w].checker_result
                explanation == trim(FromThirdCharacter(checker_output))
            IN /\ obs[w].checker_how = "return"
               /\ IF checker_output = <<>> \/ checker_output[1] \notin {"C", "I"}
                  THEN /\ result.kind = "CheckerError"
                       /\ result.error.kind = "IncorrectCheckerFormat"
                  ELSE IF checker_output[1] = "C"
                  THEN result.kind = "Correct"
                  ELSE /\ result.kind = "Incorrect"
                       /\ Len(result.message) >= Len(explanation)
                       /\ SubSeq(result.message,
                                 Len(result.message) - Len(explanation) + 1,
                                 Len(result.message)) = explanation

\* C13: a checker that exits with a non-zero code, is ended by a signal
\* other than the interrupt signal, or does not exit within the timeout
\* yields CheckerError carrying RuntimeError (TimedOut for the timeout),
\* whatever its output file holds; and checker_verify never yields
\* ProgramError.
C13_CheckerFailure ==
    \A w \in Workers :
        /\ obs[w].checker_result.kind # "ProgramError"
        /\ (/\ obs[w].checker_how # ""
            /\ obs[w].checker_wait # Exited(0)
            /\ obs[w].checker_wait # Signaled(SIGINT)) =>
               /\ obs[w].checker_how = "return"
               /\ obs[w].checker_result.kind = "CheckerError"
               /\ obs[w].checker_result.error.kind =
                     IF obs[w].checker_wait.exited THEN "RuntimeError" ELSE "TimedOut"
\* A checker that wrote C and exited with a non-zero code was given
\* CheckerError, and run_test returned it.
C13_Witness ==
    \E w \in Workers :
        /\ obs[w].checker_wait.code \notin {None, Some(0)}
        /\ obs[w].checker_read = Some(<<"C">>)
        /\ ret[w] # None
        /\ Unwrap(ret[w]).result.kind = "CheckerError"
        /\ Unwrap(ret[w]).result.error.kind = "RuntimeError"

\* The normal form of a text: its lines (the segments between newlines),
\* each without its trailing whitespace, without the empty lines at the end.
RECURSIVE Segments(_)
Segments(text) ==
    LET newlines == {i \in 1..Len(text) : text[i] = "\n"} IN
    IF newlines = {} THEN <<text>>
    ELSE LET first == CHOOSE i \in newlines : \A j \in newlines : i <= j
         IN <<SubSeq(text, 1, first - 1)>> \o Segments(SubSeq(text, first + 1, Len(text)))
Normalized(text) ==
    LET trimmed == [i \in 1..Len(Segments(text)) |-> trim_end(Segments(text)[i])]
        kept == {n \in 0..Len(trimmed) : \A i \in (n + 1)..Len(trimmed) : trimmed[i] = <<>>}
    IN SubSeq(trimmed, 1, CHOOSE n \in kept : \A m \in kept : n <= m)
\* run_test went the no-checker way with the program's output and the
\* reference file both read.
Compared(w) ==
    /\ obs[w].how = "return" /\ obs[w].error.ok
    /\ ~loc[w].checker
    /\ obs[w].output_read # None
    /\ obs[w].reference # None
    /\ Unwrap(obs[w].reference).is_file
    /\ Unwrap(obs[w].reference).read # None

\* C14: without a checker, when the program finished without error and the
\* reference file exists, an output and a reference text with the same
\* normal form are classified Correct.
C14_EqualNormalFormsCorrect ==
    \A w \in Workers :
        (/\ Compared(w)
         /\ Normalized(Unwrap(obs[w].output_read))
              = Normalized(Unwrap(Unwrap(obs[w].reference).read))) =>
            /\ ret[w] # None
            /\ Unwrap(ret[w]).result.kind = "Correct"
\* A direct run that exited with code 0 gave an output that differs from the
\* reference text in trailing whitespace only, and was classified Correct.
C14_Witness ==
    \E w \in Workers :
        /\ Compared(w) /\ ~obs[w].sandboxed /\ obs[w].wait = Exited(0)
        /\ obs[w].output_read # Unwrap(obs[w].reference).read
        /\ ret[w] # None
        /\ Unwrap(ret[w]).result.kind = "Correct"

\* The normalized lines of the two texts being compared.
ExpectedLines == split_trim_end(rendering.correct_answer)
ActualLines == split_trim_end(rendering.incorrect_answer)
\* The line of a sequence at a 0-based index (empty when missing), the
\* indices at which two sequences differ, and the row the diff owes to such
\* an index.
LineAt(split, i) == IF i < Len(split) THEN split[i + 1] ELSE <<>>
DifferingIndices(expected, actual) ==
    {i \in 0..(Max(Len(expected), Len(actual)) - 1) :
        LineAt(expected, i) # LineAt(actual, i)}
RowFor(expected, actual, i) ==
    [line |-> IntToText(i + 1), expected |-> LineAt(expected, i),
     actual |-> LineAt(actual, i)]
Rendered == rendering.pc \in {"rendered", "compared"}
\* The 0-based index a row is about: its line number less one, or -1.
IndexOf(row) ==
    IF ParseNumber(row.line) = None THEN -1 ELSE Unwrap(ParseNumber(row.line)) - 1
\* rows is in increasing order of line number, each row that of a differing
\* index.
RowsOfDifferingIndices(rows, expected, actual, differing) ==
    /\ \A k \in 1..Len(rows) :
          /\ IndexOf(rows[k]) \in differing
          /\ rows[k] = RowFor(expected, actual, IndexOf(rows[k]))
    /\ \A k \in 1..(Len(rows) - 1) : IndexOf(rows[k]) < IndexOf(rows[k + 1])

\* C15 as claimed: generate_diff emits, in increasing order, the row of
\* each index at which the normalized lines differ, and no row for an index
\* at which they are equal (a marker row at the end is the row of no index).
C15_RowPerDifference ==
    Rendered =>
        LET expected == ExpectedLines
            actual == ActualLines
            differing == DifferingIndices(expected, actual)
            rows == rendering.rows
            marked == rows # <<>> /\ rows[Len(rows)] = MarkerRow
            numbered == IF marked THEN SubSeq(rows, 1, Len(rows) - 1) ELSE rows
            emitted == {IndexOf(numbered[k]) : k \in 1..Len(numbered)}
        IN /\ RowsOfDifferingIndices(numbered, expected, actual, differing)
           /\ emitted = differing

\* C15 as amended: generate_diff emits, in increasing order, the row of
\* each of the first 99 indices at which the normalized lines differ and no
\* row for any other index; the only other row is a marker row at the end.
C15_RowPerDifferenceUpTo99 ==
    Rendered =>
        LET expected == ExpectedLines
            actual == ActualLines
            differing == DifferingIndices(expected, actual)
            rows == rendering.rows
            marked == rows # <<>> /\ rows[Len(rows)] = MarkerRow
            numbered == IF marked THEN SubSeq(rows, 1, Len(rows) - 1) ELSE rows
            emitted == {IndexOf(numbered[k]) : k \in 1..Len(numbered)}
        IN /\ RowsOfDifferingIndices(numbered, expected, actual, differing)
           /\ emitted = {i \in differing :
                           Cardinality({j \in differing : j <= i}) <= MaxDiffRows}
\* Two texts of two lines that differ in the second only gave the one row of
\* line 2.
C15_Witness ==
    /\ Rendered
    /\ Len(ExpectedLines) = 2 /\ Len(ActualLines) = 2
    /\ rendering.rows = <<[line |-> <<"2">>, expected |-> <<"b">>, actual |-> <<"a">>]>>

\* C16: generate_diff emits at most 99 differing rows; when 99 or more
\* indices differ it emits the rows of the first 99 and then exactly one
\* marker row, and when fewer differ it emits the row of each and no
\* marker row.
C16_AtMost99Rows ==
    Rendered =>
        LET expected == ExpectedLines
            actual == ActualLines
            differing == DifferingIndices(expected, actual)
            rows == rendering.rows
            markers == {k \in 1..Len(rows) : rows[k] = MarkerRow}
            emitted == {IndexOf(rows[k]) : k \in (1..Len(rows)) \ markers}
        IN /\ Len(rows) - Cardinality(markers) <= MaxDiffRows
           /\ IF Cardinality(differing) >= MaxDiffRows
              THEN /\ Len(rows) = MaxDiffRows + 1
                   /\ markers = {MaxDiffRows + 1}
                   /\ emitted = {i \in differing :
                                   Cardinality({j \in differing : j <= i}) <= MaxDiffRows}
              ELSE /\ Len(rows) = Cardinality(differing)
                   /\ markers = {}
                   /\ emitted = differing
\* More than 99 lines differ, and the diff is 99 rows and the marker row.
C16_Witness ==
    /\ Rendered
    /\ Cardinality(DifferingIndices(ExpectedLines, ActualLines)) > MaxDiffRows
    /\ Len(rendering.rows) = MaxDiffRows + 1
    /\ rendering.rows[MaxDiffRows + 1] = MarkerRow

\* The verdict run_test returned.
Verdict(w) == Unwrap(ret[w]).result
\* The runner returned an ExecutionError to run_test.
RunFailed(w) == obs[w].how = "return" /\ ~obs[w].error.ok

\* C18: run_test decides in a fixed order. When the runner returned an
\* error, the output is not read, no checker is started, the reference file
\* is not consulted and the verdict is ProgramError with that error;
\* CheckerError, NoOutputFile, Correct and Incorrect are returned only when
\* the runner returned without error and the output was read; NoOutputFile
\* is returned only without a checker; with a checker the reference file is
\* never consulted.
C18_VerdictOrder ==
    \A w \in Workers :
        /\ RunFailed(w) =>
              /\ ~obs[w].output_tried
              /\ ~obs[w].checker_spawned
              /\ obs[w].reference = None
              /\ ret[w] # None =>
                    /\ Verdict(w).kind = "ProgramError"
                    /\ Verdict(w).error = obs[w].error
        /\ (ret[w] # None
            /\ Verdict(w).kind \in {"CheckerError", "NoOutputFile", "Correct", "Incorrect"}) =>
              /\ obs[w].how = "return" /\ obs[w].error.ok
              /\ obs[w].output_read # None
        /\ (ret[w] # None /\ Verdict(w).kind = "NoOutputFile") => ~loc[w].checker
        /\ (ret[w] # None /\ Verdict(w).kind = "CheckerError") => obs[w].checker_spawned
        /\ loc[w].checker => obs[w].reference = None
\* With a checker configured the runner returned an error, and run_test
\* returned ProgramError without starting the checker.
C18_Witness ==
    \E w \in Workers :
        /\ loc[w].checker /\ RunFailed(w)
        /\ ret[w] # None /\ Verdict(w).kind = "ProgramError"
        /\ ~obs[w].checker_spawned

\* C19: when the comparison of run_test classifies the output Incorrect,
\* generate_diff on the same two texts emits at least one row.
C19_IncorrectHasRows ==
    (rendering.pc = "compared" /\ Unwrap(rendering.verdict).kind = "Incorrect") =>
        /\ Unwrap(rendering.verdict).rows = rendering.rows
        /\ Len(rendering.rows) >= 1
\* The output is the reference text and one more line: Incorrect, and the
\* diff has the row of the missing line.
C19_Witness ==
    /\ rendering.pc = "compared"
    /\ Unwrap(rendering.verdict).kind = "Incorrect"
    /\ Len(ActualLines) = Len(ExpectedLines) + 1
    /\ \A i \in 1..Len(ExpectedLines) : ExpectedLines[i] = ActualLines[i]
    /\ Len(rendering.rows) = 1

\* A compile_cpp invocation has ended.
Compiled == compilation.pc = "done"
\* The four outcomes of compile_cpp, each with the case it answers.
CompilerNotFound ==
    /\ compilation.spawn = "NotFound"
    /\ ~compilation.ok /\ compilation.message = "The compiler was not found!"
CompilerFailed ==
    /\ compilation.spawn = "ok" /\ compilation.waited
    /\ compilation.wait.exited /\ compilation.wait # Exited(0)
    /\ compilation.compilation_result # None
    /\ ~compilation.ok /\ compilation.message = Unwrap(compilation.compilation_result)
CompilerTimedOut ==
    /\ compilation.spawn = "ok" /\ compilation.waited
    /\ ~compilation.wait.exited /\ compilation.killed
    /\ ~compilation.ok /\ compilation.message = "Compilation timed out"
CompilerSucceeded ==
    /\ compilation.spawn = "ok" /\ compilation.waited
    /\ compilation.wait = Exited(0)
    /\ compilation.ok
    /\ compilation.executable_file # None
    /\ compilation.compilation_time = compilation.elapsed

\* C17: every compile_cpp invocation ends by returning one of four
\* outcomes: compiler not found gives Err with the not-found message; a
\* non-zero status gives Err with what the compiler wrote to stderr; a
\* compiler still running after compile_timeout is killed and gives Err with
\* the timeout message; exit code 0 gives Ok with the executable's path and
\* the elapsed time.
C17_FourOutcomes ==
    Compiled =>
        /\ compilation.how = "return"
        /\ \/ CompilerNotFound
           \/ CompilerFailed
           \/ CompilerTimedOut
           \/ CompilerSucceeded

====
